---- MODULE Spec2Model ----
(***************************************************************************)
(* A model of ingest.py: the batch loader that recreates the SQLite store  *)
(* ecom.db and fills its five tables from five JSON documents.             *)
(*                                                                         *)
(* Spec        main() run again and again: each step of main() is one      *)
(*             action; the content of a source file is fixed for a set of  *)
(*             inputs when load_json_file first reads it, and between two  *)
(*             runs the inputs are either kept or replaced.                *)
(* FairSpec    one run of main() with weak fairness on its steps (the      *)
(*             program is single-threaded and synchronous: it never        *)
(*             stalls).                                                    *)
(* LoaderSpec  one direct call of one table loader on a connection with no *)
(*             open transaction.                                           *)
(*                                                                         *)
(* Field values are opaque JSON scalars of the declared column type, or    *)
(* JSON null; a record's id is an integer.  SQLite's type affinity and     *)
(* rowid assignment are outside the model.  The store enforces PRIMARY KEY *)
(* and NOT NULL; main() never turns on PRAGMA foreign_keys, so the         *)
(* declared FOREIGN KEYs are not enforced.                                 *)
(***************************************************************************)
EXTENDS Integers, Sequences, FiniteSets, TLC

\* The longest JSON array a source file holds; record ids range over 1..MaxRecs.
MaxRecs == 2

-----------------------------------------------------------------------------
(* JSON / Python values *)

Missing == <<"missing">>          \* the key is not in the record (dict)
Null == <<"null">>                \* JSON null, Python None
Text(s) == <<"str", s>>
Num(n) == <<"int", n>>
\* An opaque scalar: the value record i gives for field f.
Val(f, i) == <<"val", f, i>>

\* A faulty variant of Tables: orders loaded before the users it refers to.
Tables_orders_first == <<"orders", "users", "products", "order_items", "payments">>

\* The five tables in the order main() loads them and verify_data() counts them.
Tables == <<"users", "products", "orders", "order_items", "payments">>

TableSet == {Tables[i] : i \in 1..Len(Tables)}

\* The columns of each table's INSERT statement.
Fields(t) ==
  CASE t = "users" -> {"id", "name", "email", "phone", "address", "created_at"}
    [] t = "products" -> {"id", "name", "description", "price", "category",
                          "stock", "image_url", "created_at"}
    [] t = "orders" -> {"id", "user_id", "order_date", "total_amount", "status",
                        "shipping_address"}
    [] t = "order_items" -> {"id", "order_id", "product_id", "quantity", "price",
                             "subtotal"}
    [] t = "payments" -> {"id", "order_id", "payment_method", "amount",
                          "payment_status", "transaction_id", "payment_date"}

\* The keys a loader reads with record[key]: a missing one raises KeyError.
Required(t) ==
  CASE t = "users" -> {"id", "name", "email"}
    [] t = "products" -> {"id", "name", "price"}
    [] t = "orders" -> {"id", "user_id", "order_date", "total_amount"}
    [] t = "order_items" -> {"id", "order_id", "product_id", "quantity", "price",
                             "subtotal"}
    [] t = "payments" -> {"id", "order_id", "amount"}

\* A faulty variant of Default: every optional field defaults to the empty string.
Default_blank(t, f) == <<"str", "">>

\* The second argument of record.get(key, default).
Default(t, f) ==
  IF t = "products" /\ f = "stock" THEN Num(0)
  ELSE IF t = "payments" /\ f = "payment_date" THEN Null
  ELSE Text("")

\* The columns declared NOT NULL (id is INTEGER PRIMARY KEY).
NotNull(t) ==
  CASE t = "users" -> {"name", "email"}
    [] t = "products" -> {"name", "price"}
    [] t = "orders" -> {"user_id", "order_date", "total_amount"}
    [] t = "order_items" -> {"order_id", "product_id", "quantity", "price",
                             "subtotal"}
    [] t = "payments" -> {"order_id", "amount"}

\* The declared FOREIGN KEY (column) REFERENCES table(id) clauses.
ForeignKeys(t) ==
  CASE t = "orders" -> {<<"user_id", "users">>}
    [] t = "order_items" -> {<<"order_id", "orders">>, <<"product_id", "products">>}
    [] t = "payments" -> {<<"order_id", "orders">>}
    [] OTHER -> {}

-----------------------------------------------------------------------------
(* The store file and the connection *)

NoRows == [t \in TableSet |-> {}]

\* No file at the store path.
NoStore == [exists |-> FALSE, schema |-> FALSE, rows |-> NoRows]

\* The file sqlite3.connect creates: no table yet.
FreshStore == [exists |-> TRUE, schema |-> FALSE, rows |-> NoRows]

NoConn == [state |-> "none", view |-> NoRows, inTxn |-> FALSE]

Op(name, t) == [op |-> name, t |-> t]

\* A faulty variant of create_database: an existing store is opened, not removed.
create_database_keep(d) == IF d.exists THEN d ELSE FreshStore

\* os.remove of an existing store, then sqlite3.connect: the store at the path
\* is a new one whatever was there.
create_database(d) == FreshStore

\* CREATE TABLE IF NOT EXISTS for the five tables, then commit: the rows of an
\* existing table stay.
create_tables(d) == [d EXCEPT !.schema = TRUE]

-----------------------------------------------------------------------------
(* load_json_file *)

PyNone == [isNone |-> TRUE, recs |-> <<>>]
PyList(s) == [isNone |-> FALSE, recs |-> s]

\* Python truthiness of a loaded result: None and [] are false.
Truthy(v) == ~v.isNone /\ Len(v.recs) > 0

Absent == [kind |-> "absent", data |-> <<>>]      \* no file: FileNotFoundError
BadJson == [kind |-> "badjson", data |-> <<>>]    \* not JSON: JSONDecodeError
Scalar == [kind |-> "scalar", data |-> <<>>]      \* a JSON number, true or null
Array(s) == [kind |-> "array", data |-> s]        \* a JSON array of objects
NotRead == [kind |-> "notread", data |-> <<>>]    \* not opened yet

\* A faulty variant of load_json_file: FileNotFoundError is not caught.
load_json_file_uncaught(c) ==
  CASE c.kind = "absent" -> [raised |-> "FileNotFoundError", value |-> PyNone]
    [] c.kind = "badjson" -> [raised |-> "none", value |-> PyNone]
    [] c.kind = "scalar" -> [raised |-> "TypeError", value |-> PyNone]
    [] c.kind = "array" -> [raised |-> "none", value |-> PyList(c.data)]

\* open + json.load + len(data): FileNotFoundError and JSONDecodeError are caught
\* and give None; len() of a value without a length raises TypeError, which no
\* except clause of load_json_file catches.
load_json_file(c) ==
  CASE c.kind = "absent" -> [raised |-> "none", value |-> PyNone]
    [] c.kind = "badjson" -> [raised |-> "none", value |-> PyNone]
    [] c.kind = "scalar" -> [raised |-> "TypeError", value |-> PyNone]
    [] c.kind = "array" -> [raised |-> "none", value |-> PyList(c.data)]

-----------------------------------------------------------------------------
(* The table loaders *)

\* record[f] succeeds for every required key.
HasRequired(t, rec) == \A f \in Required(t) : rec[f] # Missing

\* The row tuple a loader builds from a record that has its required keys.
Row(t, rec) ==
  [f \in Fields(t) |->
     IF f \in Required(t) THEN rec[f]
     ELSE IF rec[f] = Missing THEN Default(t, f) ELSE rec[f]]

\* A faulty variant of Accepts: the store enforces the declared foreign keys too.
Accepts_fk(t, view, row) ==
  /\ \A f \in NotNull(t) : row[f] # Null
  /\ \A r \in view[t] : r["id"] # row["id"]
  /\ \A fk \in ForeignKeys(t) : \E p \in view[fk[2]] : p["id"] = row[fk[1]]

\* The store takes a row unless it breaks PRIMARY KEY or NOT NULL.  The view is
\* the connection's view of all tables; foreign keys are not looked at.
Accepts(t, view, row) ==
  /\ \A f \in NotNull(t) : row[f] # Null
  /\ \A r \in view[t] : r["id"] # row["id"]

\* cursor.executemany: the rows go in one after the other inside the open
\* transaction, and the first row the store refuses raises IntegrityError with
\* the rows before it already in the connection's view.
RECURSIVE executemany(_, _, _)
executemany(t, view, rows) ==
  IF rows = <<>> THEN [view |-> view, err |-> "none"]
  ELSE IF ~Accepts(t, view, Head(rows)) THEN [view |-> view, err |-> "IntegrityError"]
  ELSE executemany(t, [view EXCEPT ![t] = @ \cup {Head(rows)}], Tail(rows))

\* A faulty variant of commit: nothing is written to the store file.
commit_lost(d, c) == [disk |-> d, conn |-> c]

\* conn.commit(): the connection's view becomes the content of the store file.
commit(d, c) == [disk |-> [d EXCEPT !.rows = c.view], conn |-> [c EXCEPT !.inTxn = FALSE]]

\* conn.rollback(): the connection's view goes back to the store file's content.
rollback(d, c) == [c EXCEPT !.view = d.rows, !.inTxn = FALSE]

\* A faulty variant of TableLoader: every row is committed as it goes in, so the rows
\* before a refused row stay in the store file.
TableLoader_autocommit(t, d, c, v) ==
  IF ~Truthy(v) THEN [disk |-> d, conn |-> c, raised |-> "none", ops |-> <<>>]
  ELSE IF \E i \in 1..Len(v.recs) : ~HasRequired(t, v.recs[i])
  THEN [disk |-> d, conn |-> c, raised |-> "KeyError", ops |-> <<>>]
  ELSE LET rows == [i \in 1..Len(v.recs) |-> Row(t, v.recs[i])]
           res == executemany(t, c.view, rows)
           c1 == [c EXCEPT !.view = res.view, !.inTxn = FALSE]
       IN IF res.err # "none"
          THEN [disk |-> [d EXCEPT !.rows = res.view], conn |-> c1, raised |-> res.err,
                ops |-> <<Op("executemany", t)>>]
          ELSE [disk |-> [d EXCEPT !.rows = res.view], conn |-> c1,
                raised |-> "none", ops |-> <<Op("executemany", t), Op("commit", t)>>]

\* A faulty variant of TableLoader: no early return for an empty or absent sequence.
TableLoader_unguarded(t, d, c, v) ==
  IF \E i \in 1..Len(v.recs) : ~HasRequired(t, v.recs[i])
  THEN [disk |-> d, conn |-> c, raised |-> "KeyError", ops |-> <<>>]
  ELSE LET rows == [i \in 1..Len(v.recs) |-> Row(t, v.recs[i])]
           res == executemany(t, c.view, rows)
           c1 == [c EXCEPT !.view = res.view, !.inTxn = TRUE]
       IN IF res.err # "none"
          THEN [disk |-> d, conn |-> c1, raised |-> res.err,
                ops |-> <<Op("executemany", t)>>]
          ELSE [disk |-> commit(d, c1).disk, conn |-> commit(d, c1).conn,
                raised |-> "none", ops |-> <<Op("executemany", t), Op("commit", t)>>]

\* insert_users .. insert_payments, which differ in the table and its columns
\* only.  The result: the store file, the connection, the exception raised and
\* the store operations issued.
TableLoader(t, d, c, v) ==
  IF ~Truthy(v) THEN [disk |-> d, conn |-> c, raised |-> "none", ops |-> <<>>]
  ELSE IF \E i \in 1..Len(v.recs) : ~HasRequired(t, v.recs[i])
  THEN [disk |-> d, conn |-> c, raised |-> "KeyError", ops |-> <<>>]
  ELSE LET rows == [i \in 1..Len(v.recs) |-> Row(t, v.recs[i])]
           res == executemany(t, c.view, rows)
           c1 == [c EXCEPT !.view = res.view, !.inTxn = TRUE]
       IN IF res.err # "none"
          THEN [disk |-> d, conn |-> c1, raised |-> res.err,
                ops |-> <<Op("executemany", t)>>]
          ELSE [disk |-> commit(d, c1).disk, conn |-> commit(d, c1).conn,
                raised |-> "none", ops |-> <<Op("executemany", t), Op("commit", t)>>]

insert_users(d, c, v) == TableLoader("users", d, c, v)
insert_products(d, c, v) == TableLoader("products", d, c, v)
insert_orders(d, c, v) == TableLoader("orders", d, c, v)
insert_order_items(d, c, v) == TableLoader("order_items", d, c, v)
insert_payments(d, c, v) == TableLoader("payments", d, c, v)

\* The loader main() calls for table t.
insert(t, d, c, v) ==
  CASE t = "users" -> insert_users(d, c, v)
    [] t = "products" -> insert_products(d, c, v)
    [] t = "orders" -> insert_orders(d, c, v)
    [] t = "order_items" -> insert_order_items(d, c, v)
    [] t = "payments" -> insert_payments(d, c, v)

\* SELECT COUNT(*) of each table, through the connection.
verify_data(c) == [t \in TableSet |-> Cardinality(c.view[t])]

-----------------------------------------------------------------------------
(* The inputs *)

RefFields(t) == {fk[1] : fk \in ForeignKeys(t)}

\* Record number i of a source file: id i, every reference i, an opaque value for
\* each other required field; the odd records give every optional field and the
\* even ones none.
SampleRecord(t, i) ==
  [f \in Fields(t) |->
     IF f = "id" \/ f \in RefFields(t) THEN Num(i)
     ELSE IF f \in Required(t) \/ i % 2 = 1 THEN Val(f, i)
     ELSE Missing]

Sample(t, n) == [i \in 1..n |-> SampleRecord(t, i)]

\* The NOT NULL column a flawed record gets wrong.
ProbeField(t) ==
  CASE t = "users" -> "email"
    [] t = "products" -> "price"
    [] t = "orders" -> "total_amount"
    [] t = "order_items" -> "subtotal"
    [] t = "payments" -> "amount"

\* Record number k with one flaw: a required key left out, a NOT NULL column
\* given as null, or the id of an earlier record of the file.
FlawedRecords(t, k) ==
  LET r == SampleRecord(t, k)
  IN {[r EXCEPT ![ProbeField(t)] = Missing], [r EXCEPT ![ProbeField(t)] = Null]}
       \cup {[r EXCEPT !["id"] = Num(j)] : j \in 1..(k - 1)}

\* What a source file can hold: no file, text that is not JSON, a JSON scalar,
\* an array of sample records, or such an array whose last record is flawed.
FileContents(t) ==
  {Absent, BadJson, Scalar}
    \cup {Array(Sample(t, n)) : n \in 0..MaxRecs}
    \cup UNION {{Array([Sample(t, n) EXCEPT ![n] = r]) : r \in FlawedRecords(t, n)} :
                  n \in 1..MaxRecs}

-----------------------------------------------------------------------------
(* main() *)

VARIABLES
  disk,      \* the store file ecom.db: the committed rows
  conn,      \* the connection main() holds: its state, its view, its transaction
  files,     \* the five source files, each fixed when first read
  data,      \* what load_json_file returned for the current entity
  pc,        \* where main() is
  step,      \* the entity main() is at: an index into Tables, 0 outside the steps
  raised,    \* the exception in flight, "none" when there is none
  trace,     \* the steps and store operations of this run, in order
  report,    \* the counts verify_data printed, -1 before it ran
  lastRun    \* how the previous run on the same inputs ended

vars == <<disk, conn, files, data, pc, step, raised, trace, report, lastRun>>

NoReport == [t \in TableSet |-> 0 - 1]
NoRun == [valid |-> FALSE, disk |-> NoStore, raised |-> "none"]

Init ==
  /\ disk = NoStore
  /\ conn = NoConn
  /\ files = [t \in TableSet |-> NotRead]
  /\ data = PyNone
  /\ pc = "start"
  /\ step = 0
  /\ raised = "none"
  /\ trace = <<>>
  /\ report = NoReport
  /\ lastRun = NoRun

\* conn = create_database('ecom.db')
CreateDatabase ==
  /\ pc = "start"
  /\ disk' = create_database(disk)
  /\ conn' = [state |-> "open", view |-> disk'.rows, inTxn |-> FALSE]
  /\ trace' = Append(trace, Op("create_database", ""))
  /\ pc' = "create_tables"
  /\ UNCHANGED <<files, data, step, raised, report, lastRun>>

\* create_tables(conn)
CreateTables ==
  /\ pc = "create_tables"
  /\ disk' = create_tables(disk)
  /\ trace' = Append(trace, Op("create_tables", ""))
  /\ pc' = "load"
  /\ step' = 1
  /\ UNCHANGED <<conn, files, data, raised, report, lastRun>>

\* x_data = load_json_file(json_files[x])
Load ==
  /\ pc = "load"
  /\ \E c \in FileContents(Tables[step]) :
       /\ files[Tables[step]] \in {NotRead, c}
       /\ files' = [files EXCEPT ![Tables[step]] = c]
       /\ data' = load_json_file(c).value
       /\ raised' = load_json_file(c).raised
       /\ pc' = IF load_json_file(c).raised = "none" THEN "insert" ELSE "except"
  /\ trace' = Append(trace, Op("load", Tables[step]))
  /\ UNCHANGED <<disk, conn, step, report, lastRun>>

\* After the step of Tables[i]: the next entity, or the verification.
AfterStep(i) == IF i < Len(Tables) THEN "load" ELSE "verify"

\* if x_data: insert_x(conn, x_data)
Insert ==
  /\ pc = "insert"
  /\ Truthy(data)
  /\ LET r == insert(Tables[step], disk, conn, data)
     IN /\ disk' = r.disk
        /\ conn' = r.conn
        /\ raised' = r.raised
        /\ trace' = Append(trace, Op("insert", Tables[step])) \o r.ops
        /\ pc' = IF r.raised = "none" THEN AfterStep(step) ELSE "except"
        /\ step' = IF r.raised = "none" /\ step < Len(Tables) THEN step + 1 ELSE step
  /\ UNCHANGED <<files, data, report, lastRun>>

\* if x_data: is false: the loader is not called.
Skip ==
  /\ pc = "insert"
  /\ ~Truthy(data)
  /\ pc' = AfterStep(step)
  /\ step' = IF step < Len(Tables) THEN step + 1 ELSE step
  /\ UNCHANGED <<disk, conn, files, data, raised, trace, report, lastRun>>

\* verify_data(conn), then the success banner.
Verify ==
  /\ pc = "verify"
  /\ report' = verify_data(conn)
  /\ trace' = Append(trace, Op("verify", ""))
  /\ pc' = "finally"
  /\ UNCHANGED <<disk, conn, files, data, step, raised, lastRun>>

\* A faulty variant of ExceptHandler: the exception is passed on without a rollback.
ExceptHandler_no_rollback ==
  /\ pc = "except"
  /\ pc' = "finally"
  /\ UNCHANGED <<disk, conn, files, data, step, raised, trace, report, lastRun>>

\* except Exception: conn.rollback(); raise
ExceptHandler ==
  /\ pc = "except"
  /\ conn' = rollback(disk, conn)
  /\ trace' = Append(trace, Op("rollback", ""))
  /\ pc' = "finally"
  /\ UNCHANGED <<disk, files, data, step, raised, report, lastRun>>

\* finally: conn.close(); the exception in flight, if any, leaves main().
Finally ==
  /\ pc = "finally"
  /\ conn' = [state |-> "closed", view |-> NoRows, inTxn |-> FALSE]
  /\ trace' = Append(trace, Op("close", ""))
  /\ pc' = "done"
  /\ UNCHANGED <<disk, files, data, step, raised, report, lastRun>>

\* main() is run again on the same five files.
Rerun ==
  /\ pc = "done"
  /\ lastRun' = [valid |-> TRUE, disk |-> disk, raised |-> raised]
  /\ conn' = NoConn
  /\ data' = PyNone
  /\ pc' = "start"
  /\ step' = 0
  /\ raised' = "none"
  /\ trace' = <<>>
  /\ report' = NoReport
  /\ UNCHANGED <<disk, files>>

\* The five files are replaced, and main() is run on the new ones.
ReplaceInputs ==
  /\ pc = "done"
  /\ files' = [t \in TableSet |-> NotRead]
  /\ lastRun' = NoRun
  /\ conn' = NoConn
  /\ data' = PyNone
  /\ pc' = "start"
  /\ step' = 0
  /\ raised' = "none"
  /\ trace' = <<>>
  /\ report' = NoReport
  /\ UNCHANGED disk

MainStep ==
  \/ CreateDatabase
  \/ CreateTables
  \/ Load
  \/ Insert
  \/ Skip
  \/ Verify
  \/ ExceptHandler
  \/ Finally

Next ==
  \/ MainStep
  \/ Rerun
  \/ ReplaceInputs

Spec == Init /\ [][Next]_vars

\* One run of main(): a single-threaded, synchronous program takes its next step.
FairSpec == Init /\ [][MainStep]_vars /\ WF_vars(MainStep)

-----------------------------------------------------------------------------
(* One direct call of a table loader *)

\* A record of table t with id j in which every key is left out, given as null
\* or given a value, as shape says (an id is never null).
ShapedRecord(t, j, shape) ==
  [f \in Fields(t) |->
     IF shape[f] = "missing" THEN Missing
     ELSE IF shape[f] = "null" /\ f # "id" THEN Null
     ELSE IF f = "id" \/ f \in RefFields(t) THEN Num(j)
     ELSE Val(f, j)]

\* The shapes with at most one required key not given a value.
Shapes(t) ==
  {shape \in [Fields(t) -> {"missing", "null", "given"}] :
     Cardinality({f \in Required(t) : shape[f] # "given"}) <= 1}

\* The arguments a loader is called with: None, [], and the sample arrays with
\* one record replaced by a record of any shape and any id.
IsLoaderArg(t, v) ==
  \/ v = PyNone
  \/ v = PyList(<<>>)
  \/ \E n \in 1..MaxRecs, j \in 1..MaxRecs, shape \in Shapes(t) :
       \E k \in 1..n : v = PyList([Sample(t, n) EXCEPT ![k] = ShapedRecord(t, j, shape)])

\* The rows the tables other than t hold when the loader of t is called: none,
\* or the sample rows.
RowsBefore(t) ==
  {NoRows,
   [u \in TableSet |->
      IF u = t THEN {} ELSE {Row(u, SampleRecord(u, i)) : i \in 1..MaxRecs}]}

LoaderInit ==
  /\ step \in 1..Len(Tables)
  /\ IsLoaderArg(Tables[step], data)
  /\ \E rows \in RowsBefore(Tables[step]) :
       /\ disk = [exists |-> TRUE, schema |-> TRUE, rows |-> rows]
       /\ conn = [state |-> "open", view |-> rows, inTxn |-> FALSE]
  /\ files = [t \in TableSet |-> NotRead]
  /\ pc = "call"
  /\ raised = "none"
  /\ trace = <<>>
  /\ report = NoReport
  /\ lastRun = NoRun

\* insert_x(conn, x_data)
CallLoader ==
  /\ pc = "call"
  /\ LET r == insert(Tables[step], disk, conn, data)
     IN /\ disk' = r.disk
        /\ conn' = r.conn
        /\ raised' = r.raised
        /\ trace' = r.ops
  /\ pc' = "returned"
  /\ UNCHANGED <<files, data, step, report, lastRun>>

LoaderSpec == LoaderInit /\ [][CallLoader]_vars

-----------------------------------------------------------------------------
(* What the claims speak of *)

\* The order the specification fixes for the five entities.
FixedOrder == <<"users", "products", "orders", "order_items", "payments">>
Pos(t) == CHOOSE i \in 1..Len(FixedOrder) : FixedOrder[i] = t

Ids(recs) == {recs[i]["id"] : i \in 1..Len(recs)}

\* A JSON array of records that have every required key and unique ids.
HasAllKeys(t, c) ==
  /\ c.kind = "array"
  /\ \A i \in 1..Len(c.data) : \A f \in Required(t) : c.data[i][f] # Missing
  /\ Cardinality(Ids(c.data)) = Len(c.data)

\* ... in which, moreover, every required field has a value (is not null).
WellFormed(t, c) ==
  /\ HasAllKeys(t, c)
  /\ \A i \in 1..Len(c.data) : \A f \in Required(t) : c.data[i][f] # Null

\* The table holds one row for each record of the file, with the record's id.
Populated(t, c) ==
  /\ Cardinality(disk.rows[t]) = Len(c.data)
  /\ {r["id"] : r \in disk.rows[t]} = Ids(c.data)

\* The run was aborted by the loader of Tables[step].
FailedInLoader == raised \in {"KeyError", "IntegrityError"}

Has(name, t) == \E i \in 1..Len(trace) : trace[i] = Op(name, t)

\* C1 as stated: when main() finishes on an input set in which every file that is
\* there is a JSON array of records with every required key and unique ids, each
\* table has as many rows as its file has records (0 for the empty array).
C1_AsStated ==
  (pc = "done" /\ \A t \in TableSet : files[t] = Absent \/ HasAllKeys(t, files[t]))
    => \A t \in TableSet :
         HasAllKeys(t, files[t]) => Cardinality(disk.rows[t]) = Len(files[t].data)

\* C1 (amended): when main() finishes on an input set in which every file that is
\* there is a JSON array of records that give every required field a value (the
\* key is there and is not null) and have unique ids, the run has raised nothing,
\* and each table has, and verify_data reports, as many rows as its file has
\* records: 0 for the empty array.
C1_RowCounts ==
  (pc = "done" /\ \A t \in TableSet : files[t] = Absent \/ WellFormed(t, files[t]))
    => /\ raised = "none"
       /\ \A t \in TableSet :
            WellFormed(t, files[t]) =>
              /\ Cardinality(disk.rows[t]) = Len(files[t].data)
              /\ report[t] = Len(files[t].data)

\* The specification's end-to-end scenario: one user, one product, three empty
\* arrays, and the counts 1, 1, 0, 0, 0.
C1_Witness ==
  /\ pc = "done"
  /\ \A t \in TableSet : WellFormed(t, files[t])
  /\ Len(files["users"].data) = 1 /\ Len(files["products"].data) = 1
  /\ \A t \in {"orders", "order_items", "payments"} : files[t].data = <<>>
  /\ report = [t \in TableSet |-> IF t \in {"users", "products"} THEN 1 ELSE 0]
  /\ \A t \in TableSet : Cardinality(disk.rows[t]) = report[t]

\* C2: when the run was aborted by the loader of table T (a required key missing,
\* or the store refusing a row), the store file holds every row of each table
\* loaded before T, no row of T and no row of a table after T.
C2_FailedTableEmpty ==
  (pc = "done" /\ FailedInLoader)
    => \A t \in TableSet :
         /\ Pos(t) < Pos(Tables[step]) /\ files[t].kind = "array" =>
              disk.rows[t] = {Row(t, files[t].data[i]) : i \in 1..Len(files[t].data)}
         /\ Pos(t) < Pos(Tables[step]) /\ files[t].kind # "array" => disk.rows[t] = {}
         /\ Pos(t) >= Pos(Tables[step]) => disk.rows[t] = {}

\* The loader of orders failed on its second row, after its first row went in,
\* with users and products loaded before it.
C2_Witness ==
  /\ pc = "done"
  /\ raised = "IntegrityError"
  /\ Tables[step] = "orders"
  /\ Len(files["orders"].data) = MaxRecs
  /\ Cardinality(disk.rows["users"]) = MaxRecs
  /\ Cardinality(disk.rows["products"]) = 1
  /\ disk.rows["orders"] = {}

\* C3: a source file that is not there does not abort the run: load_json_file
\* gives None for it, its loader is not called, its table ends empty, and when
\* every other file is absent or well-formed the run ends without an exception,
\* after the verification, with the table of each well-formed file populated.
C3_AbsentFileSkipped ==
  \A t \in TableSet :
    files[t] = Absent =>
      /\ ~(raised # "none" /\ Tables[step] = t)
      /\ ~Has("insert", t)
      /\ (pc = "insert" /\ Tables[step] = t) => data = PyNone
      /\ pc = "done" =>
           /\ disk.rows[t] = {}
           /\ (\A u \in TableSet : files[u] = Absent \/ WellFormed(u, files[u])) =>
                /\ raised = "none"
                /\ Has("verify", "")
                /\ \A u \in TableSet : WellFormed(u, files[u]) => Populated(u, files[u])

\* payments.json is missing, the other four files are valid and not empty, and
\* the run completed with payments empty and the other four tables populated.
C3_Witness ==
  /\ pc = "done"
  /\ raised = "none"
  /\ files["payments"] = Absent
  /\ disk.rows["payments"] = {}
  /\ report["payments"] = 0
  /\ \A t \in TableSet \ {"payments"} :
       WellFormed(t, files[t]) /\ Len(files[t].data) > 0 /\ Populated(t, files[t])

Last(q) == q[Len(q)]
Count(name) == Cardinality({i \in 1..Len(trace) : trace[i].op = name})

\* The state part of C4.
C4_Safe ==
  /\ conn.state = "closed" => Count("close") = 1 /\ Last(trace) = Op("close", "")
  /\ Count("close") <= 1
  /\ pc = "done" => conn.state = "closed"
  /\ (conn.state = "closed" /\ raised # "none") =>
       /\ Len(trace) >= 3
       /\ trace[Len(trace) - 1] = Op("rollback", "")
       /\ trace[Len(trace) - 2].op \in {"load", "insert", "executemany"}
       /\ trace[Len(trace) - 2].t = Tables[step]
       /\ ~Has("verify", "")
  /\ (conn.state = "closed" /\ raised = "none") => ~Has("rollback", "")
  /\ (pc \in {"except", "finally", "done"} /\ Count("rollback") + Count("verify") = 0) =>
       raised # "none"

\* C4: once main() has opened the connection, the connection is eventually
\* closed, exactly once, and the close is the last store operation of the run; on
\* a failure path the rollback comes right before the close, right after the step
\* that failed (no load, insert or verify in between), and the exception is still
\* in flight when main() is left.
C4_ConnectionClosed ==
  /\ []C4_Safe
  /\ (conn.state = "open") ~> (conn.state = "closed")

\* A run that failed in a loader, rolled back, closed the connection and let the
\* exception out.
C4_Witness ==
  /\ pc = "done"
  /\ raised = "KeyError"
  /\ conn.state = "closed"
  /\ Len(trace) >= 3
  /\ trace[Len(trace) - 2] = Op("insert", "payments")
  /\ trace[Len(trace) - 1] = Op("rollback", "")
  /\ Last(trace) = Op("close", "")

\* C5: a run of main() on the same five files as the run before it ends with the
\* same store file and the same outcome as that run, whatever the store held when
\* it began; and every row of the store file at the end of a run is a row of the
\* files of that run (no row of an earlier run survives).
C5_Idempotent ==
  pc = "done" =>
    /\ lastRun.valid => disk = lastRun.disk /\ raised = lastRun.raised
    /\ \A t \in TableSet : \A r \in disk.rows[t] :
         /\ files[t].kind = "array"
         /\ \E i \in 1..Len(files[t].data) : files[t].data[i]["id"] = r["id"]
    /\ disk.exists /\ disk.schema

\* The second of two runs on the same inputs, which filled all five tables.
C5_Witness ==
  /\ pc = "done"
  /\ lastRun.valid
  /\ raised = "none"
  /\ \A t \in TableSet : Cardinality(disk.rows[t]) = MaxRecs
  /\ disk = lastRun.disk

\* The place of a step or store operation in the fixed sequence.
Rank(e) ==
  CASE e.op = "create_database" -> 1
    [] e.op = "create_tables" -> 2
    [] e.op = "load" -> 10 * Pos(e.t)
    [] e.op = "insert" -> 10 * Pos(e.t) + 1
    [] e.op = "executemany" -> 10 * Pos(e.t) + 2
    [] e.op = "commit" -> 10 * Pos(e.t) + 3
    [] e.op = "verify" -> 100
    [] e.op = "rollback" -> 101
    [] e.op = "close" -> 102

\* C6: the steps of a run come in the fixed order initialize store, users,
\* products, orders, order_items, payments, verify, close: the run begins with
\* create_database and create_tables, a table's insert comes after its own load
\* and after the load of every earlier entity, on a store whose tables exist,
\* the verification comes only after all five loads and with no failure, and the
\* close is the last store action.
C6_FixedOrder ==
  /\ \A i \in 1..Len(trace) : \A j \in 1..Len(trace) :
       i < j => Rank(trace[i]) < Rank(trace[j])
  /\ Len(trace) >= 1 => trace[1] = Op("create_database", "")
  /\ Len(trace) >= 2 => trace[2] = Op("create_tables", "")
  /\ \A t \in TableSet :
       Has("insert", t) =>
         /\ disk.schema
         /\ \A u \in TableSet : Pos(u) <= Pos(t) => Has("load", u)
  /\ \A t \in TableSet : Has("executemany", t) \/ Has("commit", t) => Has("insert", t)
  /\ Has("verify", "") => raised = "none" /\ \A u \in TableSet : Has("load", u)
  /\ Has("close", "") => Last(trace) = Op("close", "")
  /\ (Has("close", "") /\ raised = "none") => Has("verify", "")

\* A complete run: all five tables loaded and inserted, verified, closed.
C6_Witness ==
  /\ pc = "done"
  /\ \A t \in TableSet : Has("load", t) /\ Has("insert", t) /\ Has("commit", t)
  /\ Has("verify", "")
  /\ Last(trace) = Op("close", "")

\* C7: a source file whose content is malformed (text that is not JSON, or JSON
\* that is not a sequence of records) never aborts the run: load_json_file gives
\* None for it, its loader is not called, and the run goes on.
C7_MalformedSkipped ==
  \A t \in TableSet :
    files[t].kind \in {"badjson", "scalar"} =>
      /\ ~(raised # "none" /\ Tables[step] = t)
      /\ ~Has("insert", t)
      /\ (pc = "insert" /\ Tables[step] = t) => data = PyNone

\* The part of C7 the code keeps: text that is not JSON is skipped.
C7_BadJsonSkipped ==
  \A t \in TableSet :
    files[t].kind = "badjson" =>
      /\ ~(raised # "none" /\ Tables[step] = t)
      /\ ~Has("insert", t)
      /\ (pc = "insert" /\ Tables[step] = t) => data = PyNone

\* The files that make no step fail: absent, not JSON, or a well-formed array.
Harmless(t, c) == c.kind \in {"absent", "badjson"} \/ WellFormed(t, c)

Dangling(t, r) ==
  \E fk \in ForeignKeys(t) : \A p \in disk.rows[fk[2]] : p["id"] # r[fk[1]]

\* C10: a dangling reference never aborts the run: a run is aborted at an entity
\* only when that entity's file is a JSON scalar or holds a record without a
\* required key, with a null in a NOT NULL column or with a repeated id; and when
\* orders.json is missing or empty while order_items.json or payments.json holds
\* well-formed records (the other files making no step fail), the run completes
\* and the store file holds a row for each of these records, whose order_id
\* matches no row of orders.
C10_ForeignKeysNotEnforced ==
  /\ raised # "none" => ~Harmless(Tables[step], files[Tables[step]])
  /\ (/\ pc = "done"
      /\ \A u \in TableSet : Harmless(u, files[u])
      /\ files["orders"] \in {Absent, Array(<<>>)})
       => /\ raised = "none"
          /\ \A t \in {"order_items", "payments"} :
               WellFormed(t, files[t]) =>
                 /\ Populated(t, files[t])
                 /\ \A r \in disk.rows[t] :
                      \A p \in disk.rows["orders"] : p["id"] # r["order_id"]

\* orders.json is missing, and rows of order_items and payments that refer to no
\* order are in the store file of a run that completed.
C10_Witness ==
  /\ pc = "done"
  /\ raised = "none"
  /\ files["orders"] = Absent
  /\ Cardinality(disk.rows["order_items"]) = MaxRecs
  /\ Cardinality(disk.rows["payments"]) = 1
  /\ \A r \in disk.rows["order_items"] : Dangling("order_items", r)
  /\ \A r \in disk.rows["payments"] : Dangling("payments", r)

\* The defaults the specification documents for the optional fields.
DocumentedDefault(t, f) ==
  CASE t = "products" /\ f = "stock" -> Num(0)
    [] t = "payments" /\ f = "payment_date" -> Null
    [] OTHER -> Text("")

\* C8: after a loader has returned normally, the store file holds, for each record
\* it was given, the row that is the record with every optional field that was
\* left out replaced by its documented default ("" for text, 0 for a product's
\* stock, null for a payment's payment_date) and every field that was given,
\* null included, unchanged; and it holds no other row of that table.
C8_DefaultsApplied ==
  (pc = "returned" /\ raised = "none") =>
    LET t == Tables[step]
    IN /\ Cardinality(disk.rows[t]) = Len(data.recs)
       /\ \A i \in 1..Len(data.recs) :
            \E r \in disk.rows[t] :
              \A f \in Fields(t) :
                r[f] = IF data.recs[i][f] = Missing THEN DocumentedDefault(t, f)
                       ELSE data.recs[i][f]

\* A product given without stock and without description but with a category
\* is stored with stock 0, description "" and its category.
C8_Witness ==
  /\ pc = "returned"
  /\ raised = "none"
  /\ Tables[step] = "products"
  /\ \E i \in 1..Len(data.recs) :
       /\ data.recs[i]["stock"] = Missing
       /\ data.recs[i]["description"] = Missing
       /\ data.recs[i]["category"] \notin {Missing, Null}
       /\ \E r \in disk.rows["products"] :
            /\ r["id"] = data.recs[i]["id"]
            /\ r["stock"] = Num(0)
            /\ r["description"] = Text("")
            /\ r["category"] = data.recs[i]["category"]

\* The tables other than t are as they were, in the connection and in the file.
OthersUnchanged(t) ==
  \A u \in TableSet \ {t} : conn'.view[u] = conn.view[u] /\ disk'.rows[u] = disk.rows[u]

\* C9 as stated: a loader called with an empty or absent sequence changes nothing
\* and commits nothing; called with a non-empty sequence it issues one bulk insert
\* of all rows and then exactly one commit, and writes to no other table.
C9_AsStated ==
  [][pc = "call" =>
       LET t == Tables[step]
       IN /\ ~Truthy(data) => disk' = disk /\ conn' = conn /\ trace' = <<>>
          /\ Truthy(data) =>
               /\ trace' = <<Op("executemany", t), Op("commit", t)>>
               /\ OthersUnchanged(t)]_vars

\* C9 (amended): a loader called with an empty or absent sequence changes neither
\* the store nor the connection and issues no store operation; called with a
\* non-empty sequence it issues at most one bulk insert and at most one commit,
\* the commit after the insert, and writes to no table but its own; when it
\* returns normally it has issued exactly one bulk insert of all rows and then
\* exactly one commit, which leaves no transaction open; when it raises (a
\* required key is missing, or the store refuses a row) it has committed nothing.
C9_OneTransaction ==
  [][pc = "call" =>
       LET t == Tables[step]
           bulk == Op("executemany", t)
           done == Op("commit", t)
       IN /\ ~Truthy(data) =>
               disk' = disk /\ conn' = conn /\ trace' = <<>> /\ raised' = "none"
          /\ Truthy(data) =>
               /\ trace' \in {<<>>, <<bulk>>, <<bulk, done>>}
               /\ OthersUnchanged(t)
               /\ raised' = "none" <=> trace' = <<bulk, done>>
               /\ raised' = "none" =>
                    /\ {r["id"] : r \in disk'.rows[t]} = Ids(data.recs)
                    /\ Cardinality(disk'.rows[t]) = Len(data.recs)
                    /\ conn'.view = disk'.rows
                    /\ ~conn'.inTxn
               /\ raised' # "none" => disk' = disk]_vars

\* A loader was given MaxRecs records and issued one bulk insert and one commit.
C9_Witness ==
  /\ pc = "returned"
  /\ Len(data.recs) = MaxRecs
  /\ raised = "none"
  /\ trace = <<Op("executemany", Tables[step]), Op("commit", Tables[step])>>
  /\ Cardinality(disk.rows[Tables[step]]) = MaxRecs
  /\ ~conn.inTxn

====
